---- MODULE Spec2Model ----
(***************************************************************************)
(* Secret Santa draw: the allocation engine (utils/allocation), the        *)
(* payload codec (utils/encoding.ts) and the entry form's handlers         *)
(* (routes/EntryPage/EntryPage.tsx).                                       *)
(*                                                                         *)
(* A JavaScript string is modelled as the sequence of its UTF-16 code      *)
(* units (naturals below 65536): "AB" is <<65, 66>>.                       *)
(***************************************************************************)
EXTENDS Integers, Sequences, FiniteSets, TLC

VARIABLES
    \* ---- one call of allocateSecretSanta(participants, exclusions) ----
    participants,   \* the argument: a list of names
    exclusions,     \* the argument: name -> the names of its exclusion array
    pc,             \* position in the call
    attempts,       \* the local `attempts`
    allocation,     \* allocateSystematic's `allocation`
    used,           \* allocateSystematic's `used`
    stack,          \* the active calls of backtrack, outermost first
    retval,         \* the value the call of backtrack that just ended returned
    returned,       \* the frame of the call of backtrack that just ended
    result,         \* what allocateSecretSanta returned
    via,            \* which return statement produced `result`
    \* ---- one use of the codec ----
    source,         \* how the input was drawn
    payload,        \* encodePayload's argument
    token,          \* encodePayload's result, decodePayload's argument
    decoded,        \* decodePayload's result
    cpc,            \* position in the use
    \* ---- the entry form (EntryPage) ----
    title,              \* useState('')
    description,        \* useState('')
    formParticipants,   \* the form's `participants`: a list of [id, name, exclusions]
    newParticipantName, \* useState('')
    generatedUrls,      \* a list of [name, url]
    error,              \* null or a message
    now,                \* what Date.now() answers: milliseconds since the form was mounted
    run                 \* what the last handler did, when it was handleGenerate

allocVars == <<participants, exclusions, pc, attempts, allocation, used,
               stack, retval, returned, result, via>>

codecVars == <<source, payload, token, decoded, cpc>>

formVars == <<title, description, formParticipants, newParticipantName,
              generatedUrls, error, now, run>>

vars == <<allocVars, codecVars, formVars>>

(***************************************************************************)
(* Bounds of the model.                                                    *)
(***************************************************************************)
MaxN == 3           \* longest participant list of an allocation call
MaxExcl == 2        \* most (giver, excluded name) pairs of an exclusion mapping
MaxPayloadLen == 2  \* most code units in the four fields of a payload, together
MaxGarbageLen == 3  \* longest token drawn character by character
MaxParticipants == 3 \* most participants the form is given
MaxClock == 1       \* the milliseconds that pass while the form is used

\* The bijections of 1..n onto itself.
IndexPerms(n) == {p \in [1..n -> 1..n] : \A i, j \in 1..n : p[i] = p[j] => i = j}

\* The index permutations of every length a list of the model can have.
PermTable == [n \in 0..(MaxN + 1) |-> IndexPerms(n)]

(***************************************************************************)
(* Helpers on sequences.                                                   *)
(***************************************************************************)
Range(s) == {s[i] : i \in 1..Len(s)}

Reverse(s) == [i \in 1..Len(s) |-> s[Len(s) + 1 - i]]

\* Every order Array.prototype.sort can leave a copy of `list` in when its
\* comparator answers at random: the rearrangements of `list`.
Shuffles(list) == {[i \in 1..Len(list) |-> list[p[i]]] : p \in PermTable[Len(list)]}

\* filter(...) over a list with pairwise distinct elements, as a set-to-list
\* helper: the sub-list of `list` whose elements are in S, order kept.
RECURSIVE Filter(_, _)
Filter(list, S) ==
    IF list = <<>> THEN <<>>
    ELSE IF Head(list) \in S THEN <<Head(list)>> \o Filter(Tail(list), S)
    ELSE Filter(Tail(list), S)

EmptyMap == [x \in {} |-> x]

\* obj[key] = value on a plain object used as a map.
MapSet(obj, key, value) == [k \in DOMAIN obj \cup {key} |-> IF k = key THEN value ELSE obj[k]]

\* delete obj[key].
MapDelete(obj, key) == [k \in DOMAIN obj \ {key} |-> obj[k]]

(***************************************************************************)
(* allocateSecretSanta: the trial phase.                                   *)
(***************************************************************************)
maxAttempts == 1000

\* Excluded with the exclusion arrays never consulted.
ExcludedIgnored(excl, giver) == {}

\* exclusions[giver] || []
Excluded(excl, giver) == IF giver \in DOMAIN excl THEN excl[giver] ELSE {}

\* One pass of the for loop over a candidate: `valid` stays true unless some
\* position pairs a giver with itself or with a name of its exclusion array
\* (the loop breaks at the first such position).
TrialValid(parts, excl, shuffled) ==
    \A i \in 1..Len(parts) :
        /\ ~(parts[i] = shuffled[i])
        /\ ~(shuffled[i] \in Excluded(excl, parts[i]))

\* The object the loop has built when it ran to the end: allocation[giver] =
\* receiver for every position, a later position overwriting an earlier one.
TrialAllocation(parts, shuffled) ==
    [g \in Range(parts) |->
        shuffled[CHOOSE i \in 1..Len(parts) :
                    parts[i] = g /\ \A j \in 1..Len(parts) : parts[j] = g => j <= i]]

NullResult == [isNull |-> TRUE, map |-> EmptyMap]
Allocated(map) == [isNull |-> FALSE, map |-> map]

(***************************************************************************)
(* allocateSystematic: the candidates of one call of backtrack.            *)
(***************************************************************************)
\* Candidates with the !used.has(p) test left out.
CandidatesIgnoringUsed(parts, excl, usedNow, giver) ==
    Filter(parts, Range(parts) \ ({giver} \cup Excluded(excl, giver)))

\* participants.filter(p => !excluded.has(p) && !used.has(p)), where excluded
\* is new Set([giver, ...(exclusions[giver] || [])]).
Candidates(parts, excl, usedNow, giver) ==
    Filter(parts, Range(parts) \ (({giver} \cup Excluded(excl, giver)) \cup usedNow))

(***************************************************************************)
(* The payload codec (utils/encoding.ts) and the platform functions it     *)
(* calls.  Every function that can throw returns [ok, value]: ok = FALSE   *)
(* is the exception.                                                       *)
(***************************************************************************)
Thrown == [ok |-> FALSE, value |-> <<>>]

\* The element of a set of one: The({f(v) : v \in {e}}) is f of the constant
\* v = e, e computed once.
The(S) == CHOOSE out \in S : TRUE
Value(v) == [ok |-> TRUE, value |-> v]

IsHighSurrogate(c) == c \in 55296..56319
IsLowSurrogate(c) == c \in 56320..57343

\* ---- JSON.stringify of an object whose four properties are strings ----
HexDigitLower(d) == IF d < 10 THEN 48 + d ELSE 87 + d

UnicodeEscape(c) ==
    <<92, 117, HexDigitLower(c \div 4096), HexDigitLower((c \div 256) % 16),
      HexDigitLower((c \div 16) % 16), HexDigitLower(c % 16)>>

\* QuoteJSONString without the surrounding quotes: \" \\ \b \t \n \f \r, \u00xx
\* for the other control characters, \udxxx for a lone surrogate.
RECURSIVE QuoteChars(_)
QuoteChars(s) ==
    IF s = <<>> THEN <<>>
    ELSE LET c == Head(s)
         IN IF IsHighSurrogate(c) /\ Len(s) >= 2 /\ IsLowSurrogate(s[2])
            THEN <<c, s[2]>> \o QuoteChars(Tail(Tail(s)))
            ELSE (CASE c = 34 -> <<92, 34>>
                    [] c = 92 -> <<92, 92>>
                    [] c = 8 -> <<92, 98>>
                    [] c = 9 -> <<92, 116>>
                    [] c = 10 -> <<92, 110>>
                    [] c = 12 -> <<92, 102>>
                    [] c = 13 -> <<92, 114>>
                    [] c < 32 /\ c \notin {8, 9, 10, 12, 13} -> UnicodeEscape(c)
                    [] IsHighSurrogate(c) \/ IsLowSurrogate(c) -> UnicodeEscape(c)
                    [] OTHER -> <<c>>) \o QuoteChars(Tail(s))

QuoteJSONString(s) == <<34>> \o QuoteChars(s) \o <<34>>

\* JSON.stringify(payload): {"t":...,"d":...,"g":...,"r":...}, the properties
\* in the order the object literal lists them.
JSONStringify(p) ==
    <<123, 34, 116, 34, 58>> \o QuoteJSONString(p.t)
    \o <<44, 34, 100, 34, 58>> \o QuoteJSONString(p.d)
    \o <<44, 34, 103, 34, 58>> \o QuoteJSONString(p.g)
    \o <<44, 34, 114, 34, 58>> \o QuoteJSONString(p.r)
    \o <<125>>

\* ---- btoa ----
Base64Char(v) ==
    IF v < 26 THEN 65 + v
    ELSE IF v < 52 THEN 71 + v
    ELSE IF v < 62 THEN v - 4
    ELSE IF v = 62 THEN 43
    ELSE 47

RECURSIVE Base64Groups(_)
Base64Groups(b) ==
    IF Len(b) = 0 THEN <<>>
    ELSE IF Len(b) = 1
    THEN <<Base64Char(b[1] \div 4), Base64Char((b[1] % 4) * 16), 61, 61>>
    ELSE IF Len(b) = 2
    THEN <<Base64Char(b[1] \div 4), Base64Char(((b[1] % 4) * 16) + (b[2] \div 16)),
           Base64Char((b[2] % 16) * 4), 61>>
    ELSE <<Base64Char(b[1] \div 4), Base64Char(((b[1] % 4) * 16) + (b[2] \div 16)),
           Base64Char(((b[2] % 16) * 4) + (b[3] \div 64)), Base64Char(b[3] % 64)>>
         \o Base64Groups(SubSeq(b, 4, Len(b)))

\* btoa throws InvalidCharacterError on a code unit above 0xFF.
Btoa(s) ==
    IF \E i \in 1..Len(s) : s[i] > 255 THEN Thrown ELSE Value(Base64Groups(s))

\* ---- encodeURIComponent ----
IsUriUnreserved(c) ==
    \/ c \in 65..90
    \/ c \in 97..122
    \/ c \in 48..57
    \/ c \in {45, 95, 46, 33, 126, 42, 39, 40, 41}

HexDigitUpper(d) == IF d < 10 THEN 48 + d ELSE 55 + d

PercentByte(b) == <<37, HexDigitUpper(b \div 16), HexDigitUpper(b % 16)>>

\* The percent-escaped UTF-8 encoding of a code point.
PercentUtf8(cp) ==
    IF cp < 128 THEN PercentByte(cp)
    ELSE IF cp < 2048 THEN PercentByte(192 + (cp \div 64)) \o PercentByte(128 + (cp % 64))
    ELSE IF cp < 65536
    THEN PercentByte(224 + (cp \div 4096)) \o PercentByte(128 + ((cp \div 64) % 64))
         \o PercentByte(128 + (cp % 64))
    ELSE PercentByte(240 + (cp \div 262144)) \o PercentByte(128 + ((cp \div 4096) % 64))
         \o PercentByte(128 + ((cp \div 64) % 64)) \o PercentByte(128 + (cp % 64))

\* The pieces of a list of strings, joined.
RECURSIVE Concat(_)
Concat(pieces) ==
    IF Len(pieces) = 0 THEN <<>>
    ELSE IF Len(pieces) = 1 THEN pieces[1]
    ELSE LET half == Len(pieces) \div 2
         IN Concat(SubSeq(pieces, 1, half)) \o Concat(SubSeq(pieces, half + 1, Len(pieces)))

\* A surrogate at i that is not half of a pair.
LoneSurrogateAt(s, i) ==
    \/ IsHighSurrogate(s[i]) /\ (i = Len(s) \/ ~IsLowSurrogate(s[i + 1]))
    \/ IsLowSurrogate(s[i]) /\ (i = 1 \/ ~IsHighSurrogate(s[i - 1]))

\* Encode(string, extraUnescaped): a character of the unreserved set or of
\* extraUnescaped stays; any other is replaced by the escapes of the UTF-8
\* bytes of its code point (a surrogate pair is one code point); a lone
\* surrogate throws URIError.
UriEncode(s, extraUnescaped) ==
    LET piece(i) ==
            IF IsUriUnreserved(s[i]) \/ s[i] \in extraUnescaped THEN <<s[i]>>
            ELSE IF IsLowSurrogate(s[i]) THEN <<>>
            ELSE IF IsHighSurrogate(s[i])
            THEN PercentUtf8(((s[i] - 55296) * 1024) + (s[i + 1] - 56320) + 65536)
            ELSE PercentUtf8(s[i])
    IN IF \E i \in 1..Len(s) : LoneSurrogateAt(s, i) THEN Thrown
       ELSE Value(Concat([i \in 1..Len(s) |-> piece(i)]))

\* encodeURI, which keeps the reserved characters and '#'.
EncodeURI(s) == UriEncode(s, {59, 47, 63, 58, 64, 38, 61, 43, 36, 44, 35})

EncodeURIComponent(s) == UriEncode(s, {})

\* ---- encodePayload ----
\* JSON.stringify, reverse, btoa, encodeURIComponent; an exception of a step
\* leaves the function.
EncodeBase64(base64) == IF ~base64.ok THEN Thrown ELSE EncodeURIComponent(base64.value)

EncodePayload(p) ==
    The({EncodeBase64(base64) : base64 \in {Btoa(Reverse(JSONStringify(p)))}})

\* ---- decodeURIComponent ----
HexValue(c) ==
    IF c \in 48..57 THEN c - 48
    ELSE IF c \in 65..70 THEN c - 55
    ELSE IF c \in 97..102 THEN c - 87
    ELSE -1

\* s holds '%' and two hexadecimal digits at k.
EscapeAt(s, k) ==
    /\ k + 2 <= Len(s)
    /\ s[k] = 37
    /\ HexValue(s[k + 1]) >= 0
    /\ HexValue(s[k + 2]) >= 0

ByteAt(s, k) == (HexValue(s[k + 1]) * 16) + HexValue(s[k + 2])

\* The number of leading 1 bits of a byte.
LeadingOnes(b) ==
    IF b < 128 THEN 0
    ELSE IF b < 192 THEN 1
    ELSE IF b < 224 THEN 2
    ELSE IF b < 240 THEN 3
    ELSE IF b < 248 THEN 4
    ELSE 5

\* The code point a sequence of 2 to 4 octets spells in UTF-8, -1 when it is
\* not the UTF-8 encoding of a code point (a bad continuation byte, an
\* overlong form, a surrogate, a value above 0x10FFFF).
Utf8CodePoint(o) ==
    LET n == Len(o)
        lead == IF n = 2 THEN o[1] - 192 ELSE IF n = 3 THEN o[1] - 224 ELSE o[1] - 240
        cp == IF n = 2 THEN (lead * 64) + (o[2] % 64)
              ELSE IF n = 3 THEN (lead * 4096) + ((o[2] % 64) * 64) + (o[3] % 64)
              ELSE (lead * 262144) + ((o[2] % 64) * 4096) + ((o[3] % 64) * 64) + (o[4] % 64)
        least == IF n = 2 THEN 128 ELSE IF n = 3 THEN 2048 ELSE 65536
    IN IF \E j \in 2..n : o[j] \notin 128..191 THEN -1
       ELSE IF cp < least \/ cp > 1114111 \/ cp \in 55296..57343 THEN -1
       ELSE cp

\* UTF16EncodeCodePoint.
Utf16(cp) ==
    IF cp < 65536 THEN <<cp>>
    ELSE <<55296 + ((cp - 65536) \div 1024), 56320 + ((cp - 65536) % 1024)>>

\* decodeURIComponent.  Every '%' must start an escape of two hexadecimal
\* digits.  An escaped byte below 0x80 is that character; a byte with n = 2..4
\* leading 1 bits takes the next n - 1 escapes as its continuation bytes and
\* the n octets must spell a code point in UTF-8; a continuation byte that no
\* such byte takes, and a byte with more than 4 leading 1 bits, are malformed.
\* Anything malformed throws URIError.
DecodeURIComponent(s) ==
    LET ones(k) == LeadingOnes(ByteAt(s, k))
        octets(k) == [j \in 1..ones(k) |-> ByteAt(s, k + (3 * (j - 1)))]
        groupAt(k) ==
            /\ k + (3 * ones(k)) - 1 <= Len(s)
            /\ \A j \in 1..(ones(k) - 1) : EscapeAt(s, k + (3 * j))
            /\ Utf8CodePoint(octets(k)) >= 0
        taken(k) ==
            \E j \in 1..3 :
                /\ k - (3 * j) >= 1
                /\ EscapeAt(s, k - (3 * j))
                /\ ones(k - (3 * j)) \in (j + 1)..4
        malformed(k) ==
            /\ s[k] = 37
            /\ \/ ~EscapeAt(s, k)
               \/ ones(k) > 4
               \/ ones(k) = 1 /\ ~taken(k)
               \/ ones(k) \in 2..4 /\ ~groupAt(k)
        inEscape(k) == (k >= 2 /\ s[k - 1] = 37) \/ (k >= 3 /\ s[k - 2] = 37)
        piece(k) ==
            IF s[k] = 37
            THEN (IF ones(k) = 0 THEN <<ByteAt(s, k)>>
                  ELSE IF ones(k) = 1 THEN <<>>
                  ELSE Utf16(Utf8CodePoint(octets(k))))
            ELSE IF inEscape(k) THEN <<>>
            ELSE <<s[k]>>
    IN IF \E k \in 1..Len(s) : malformed(k) THEN Thrown
       ELSE Value(Concat([k \in 1..Len(s) |-> piece(k)]))

\* ---- atob ----
IsAsciiWhitespace(c) == c \in {9, 10, 12, 13, 32}

NotAsciiWhitespace(c) == ~IsAsciiWhitespace(c)

Base64Value(c) ==
    IF c \in 65..90 THEN c - 65
    ELSE IF c \in 97..122 THEN c - 71
    ELSE IF c \in 48..57 THEN c + 4
    ELSE IF c = 43 THEN 62
    ELSE IF c = 47 THEN 63
    ELSE -1

\* The bytes of Base64 text without padding whose length is not 1 modulo 4.
RECURSIVE Base64Bytes(_)
Base64Bytes(d) ==
    IF Len(d) = 0 THEN <<>>
    ELSE LET v == [i \in 1..Len(d) |-> Base64Value(d[i])]
         IN IF Len(d) = 2 THEN <<(v[1] * 4) + (v[2] \div 16)>>
            ELSE IF Len(d) = 3
            THEN <<(v[1] * 4) + (v[2] \div 16), ((v[2] % 16) * 16) + (v[3] \div 4)>>
            ELSE <<(v[1] * 4) + (v[2] \div 16), ((v[2] % 16) * 16) + (v[3] \div 4),
                   ((v[3] % 4) * 64) + v[4]>>
                 \o Base64Bytes(SubSeq(d, 5, Len(d)))

\* atob (forgiving-base64 decode): ASCII whitespace is dropped, one or two
\* '=' are dropped from text whose length is a multiple of 4, and what is left
\* must be Base64 characters, not 1 modulo 4 of them; else InvalidCharacterError.
Atob(s) ==
    LET data == SelectSeq(s, NotAsciiWhitespace)
        n == Len(data)
        unpadded ==
            IF n % 4 = 0 /\ n >= 2 /\ data[n] = 61 /\ data[n - 1] = 61
            THEN SubSeq(data, 1, n - 2)
            ELSE IF n % 4 = 0 /\ n >= 1 /\ data[n] = 61
            THEN SubSeq(data, 1, n - 1)
            ELSE data
    IN IF Len(unpadded) % 4 = 1 THEN Thrown
       ELSE IF \E i \in 1..Len(unpadded) : Base64Value(unpadded[i]) < 0 THEN Thrown
       ELSE Value(Base64Bytes(unpadded))

\* ---- JSON.parse ----
\* A parsed value: where the text of the value ends, its kind, the code units
\* of a string, and the members of an object as (key, kind of the value, code
\* units of a string value), in the order of the text.  What an array or a
\* nested object holds is parsed and dropped: decodePayload never reads it.
JFail == [ok |-> FALSE, pos |-> 0, kind |-> "none", str |-> <<>>, members |-> <<>>]
JValue(pos, kind, str, members) ==
    [ok |-> TRUE, pos |-> pos, kind |-> kind, str |-> str, members |-> members]

RECURSIVE SkipWhitespace(_, _)
SkipWhitespace(s, i) ==
    IF i <= Len(s) /\ s[i] \in {32, 9, 10, 13} THEN SkipWhitespace(s, i + 1) ELSE i

IsDigit(c) == c \in 48..57

RECURSIVE SkipDigits(_, _)
SkipDigits(s, i) == IF i <= Len(s) /\ IsDigit(s[i]) THEN SkipDigits(s, i + 1) ELSE i

\* The value of the four hexadecimal digits at i, -1 when they are not there.
Hex4At(s, i) ==
    IF i + 3 > Len(s) \/ \E j \in 0..3 : HexValue(s[i + j]) < 0 THEN -1
    ELSE (HexValue(s[i]) * 4096) + (HexValue(s[i + 1]) * 256)
         + (HexValue(s[i + 2]) * 16) + HexValue(s[i + 3])

\* A string, from the character after its opening quote.
RECURSIVE ParseStringFrom(_, _, _)
ParseStringFrom(s, i, acc) ==
    IF i > Len(s) THEN JFail
    ELSE IF s[i] = 34 THEN JValue(i + 1, "string", acc, <<>>)
    ELSE IF s[i] < 32 THEN JFail
    ELSE IF s[i] # 92 THEN ParseStringFrom(s, i + 1, Append(acc, s[i]))
    ELSE IF i + 1 > Len(s) THEN JFail
    ELSE LET e == s[i + 1]
         IN IF e = 117
            THEN (IF Hex4At(s, i + 2) < 0 THEN JFail
                  ELSE ParseStringFrom(s, i + 6, Append(acc, Hex4At(s, i + 2))))
            ELSE IF e \in {34, 92, 47} THEN ParseStringFrom(s, i + 2, Append(acc, e))
            ELSE IF e = 98 THEN ParseStringFrom(s, i + 2, Append(acc, 8))
            ELSE IF e = 102 THEN ParseStringFrom(s, i + 2, Append(acc, 12))
            ELSE IF e = 110 THEN ParseStringFrom(s, i + 2, Append(acc, 10))
            ELSE IF e = 114 THEN ParseStringFrom(s, i + 2, Append(acc, 13))
            ELSE IF e = 116 THEN ParseStringFrom(s, i + 2, Append(acc, 9))
            ELSE JFail

\* Where the number that starts at i ends, 0 when no number starts there:
\* -? (0 | [1-9][0-9]*) (. [0-9]+)? ([eE] [+-]? [0-9]+)?
NumberEnd(s, i) ==
    LET a == IF i <= Len(s) /\ s[i] = 45 THEN i + 1 ELSE i
        b == IF a > Len(s) \/ ~IsDigit(s[a]) THEN 0
             ELSE IF s[a] = 48 THEN a + 1
             ELSE SkipDigits(s, a)
        c == IF b = 0 THEN 0
             ELSE IF b <= Len(s) /\ s[b] = 46
             THEN (IF SkipDigits(s, b + 1) = b + 1 THEN 0 ELSE SkipDigits(s, b + 1))
             ELSE b
        d == IF c = 0 THEN 0
             ELSE IF c <= Len(s) /\ s[c] \in {101, 69}
             THEN LET e == IF c + 1 <= Len(s) /\ s[c + 1] \in {43, 45} THEN c + 2 ELSE c + 1
                  IN IF SkipDigits(s, e) = e THEN 0 ELSE SkipDigits(s, e)
             ELSE c
    IN d

LiteralAt(s, i, lit) ==
    /\ i + Len(lit) - 1 <= Len(s)
    /\ SubSeq(s, i, i + Len(lit) - 1) = lit

RECURSIVE ParseValue(_, _), ParseMembers(_, _, _), ParseElements(_, _)
ParseValue(s, from) ==
    LET i == SkipWhitespace(s, from)
    IN IF i > Len(s) THEN JFail
       ELSE IF s[i] = 123
       THEN LET j == SkipWhitespace(s, i + 1)
            IN IF j <= Len(s) /\ s[j] = 125 THEN JValue(j + 1, "object", <<>>, <<>>)
               ELSE ParseMembers(s, j, <<>>)
       ELSE IF s[i] = 91
       THEN LET j == SkipWhitespace(s, i + 1)
            IN IF j <= Len(s) /\ s[j] = 93 THEN JValue(j + 1, "array", <<>>, <<>>)
               ELSE ParseElements(s, j)
       ELSE IF s[i] = 34 THEN ParseStringFrom(s, i + 1, <<>>)
       ELSE IF s[i] = 45 \/ IsDigit(s[i])
       THEN (IF NumberEnd(s, i) = 0 THEN JFail
             ELSE JValue(NumberEnd(s, i), "number", <<>>, <<>>))
       ELSE IF LiteralAt(s, i, <<116, 114, 117, 101>>)
       THEN JValue(i + 4, "boolean", <<>>, <<>>)
       ELSE IF LiteralAt(s, i, <<102, 97, 108, 115, 101>>)
       THEN JValue(i + 5, "boolean", <<>>, <<>>)
       ELSE IF LiteralAt(s, i, <<110, 117, 108, 108>>)
       THEN JValue(i + 4, "null", <<>>, <<>>)
       ELSE JFail

\* The members of an object, from the opening quote of a key.
ParseMembers(s, i, acc) ==
    IF i > Len(s) \/ s[i] # 34 THEN JFail
    ELSE LET key == ParseStringFrom(s, i + 1, <<>>)
         IN IF ~key.ok THEN JFail
            ELSE LET c == SkipWhitespace(s, key.pos)
                 IN IF c > Len(s) \/ s[c] # 58 THEN JFail
                    ELSE LET v == ParseValue(s, c + 1)
                         IN IF ~v.ok THEN JFail
                            ELSE LET e == SkipWhitespace(s, v.pos)
                                     more == Append(acc, [key |-> key.str, kind |-> v.kind,
                                                          str |-> v.str])
                                 IN IF e > Len(s) THEN JFail
                                    ELSE IF s[e] = 125 THEN JValue(e + 1, "object", <<>>, more)
                                    ELSE IF s[e] = 44
                                    THEN ParseMembers(s, SkipWhitespace(s, e + 1), more)
                                    ELSE JFail

\* The elements of an array, from its first element.
ParseElements(s, i) ==
    LET v == ParseValue(s, i)
    IN IF ~v.ok THEN JFail
       ELSE LET e == SkipWhitespace(s, v.pos)
            IN IF e > Len(s) THEN JFail
               ELSE IF s[e] = 93 THEN JValue(e + 1, "array", <<>>, <<>>)
               ELSE IF s[e] = 44 THEN ParseElements(s, e + 1)
               ELSE JFail

\* JSON.parse throws SyntaxError unless the text is one value, whitespace
\* around it allowed.
JSONParse(s) ==
    LET v == ParseValue(s, 1)
    IN IF v.ok /\ SkipWhitespace(s, v.pos) > Len(s) THEN v ELSE JFail

\* ---- decodePayload ----
\* value[name] for a parsed value that is not null: the value of the last
\* member with that key of an object, undefined for any other value.
Property(v, name) ==
    LET at == {i \in 1..Len(v.members) : v.members[i].key = name}
    IN IF v.kind # "object" \/ at = {} THEN [kind |-> "undefined", str |-> <<>>]
       ELSE LET last == CHOOSE i \in at : \A j \in at : j <= i
            IN [kind |-> v.members[last].kind, str |-> v.members[last].str]

\* What a call hands back: an exception, null, or the four strings of the
\* object it returns.
NullPayload == [threw |-> FALSE, isNull |-> TRUE, t |-> <<>>, d |-> <<>>, g |-> <<>>, r |-> <<>>]
ThrownPayload == [threw |-> TRUE, isNull |-> TRUE, t |-> <<>>, d |-> <<>>, g |-> <<>>, r |-> <<>>]
ReturnedPayload(t, d, g, r) ==
    [threw |-> FALSE, isNull |-> FALSE, t |-> t, d |-> d, g |-> g, r |-> r]

\* Validate payload shape: null has no properties (reading payload.t throws
\* TypeError); the object is returned when typeof of all four is 'string'.
ValidateShape(parsed) ==
    IF ~parsed.ok THEN ThrownPayload
    ELSE IF parsed.kind = "null" THEN ThrownPayload
    ELSE IF /\ Property(parsed, <<116>>).kind = "string"
            /\ Property(parsed, <<100>>).kind = "string"
            /\ Property(parsed, <<103>>).kind = "string"
            /\ Property(parsed, <<114>>).kind = "string"
    THEN ReturnedPayload(Property(parsed, <<116>>).str, Property(parsed, <<100>>).str,
                         Property(parsed, <<103>>).str, Property(parsed, <<114>>).str)
    ELSE NullPayload

\* Steps 3 and 4: reverse, JSON.parse.
ParseReversed(base64Decoded) ==
    IF ~base64Decoded.ok THEN ThrownPayload
    ELSE The({ValidateShape(parsed) : parsed \in {JSONParse(Reverse(base64Decoded.value))}})

\* Step 2: atob.
DecodeBase64(urlDecoded) ==
    IF ~urlDecoded.ok THEN ThrownPayload
    ELSE The({ParseReversed(base64Decoded) : base64Decoded \in {Atob(urlDecoded.value)}})

\* The body of the try block, from step 1: decodeURIComponent.
DecodeTry(encoded) ==
    The({DecodeBase64(urlDecoded) : urlDecoded \in {DecodeURIComponent(encoded)}})

\* catch (error) { return null; }
Catch(outcome) == IF outcome.threw THEN NullPayload ELSE outcome

\* DecodePayload without the try/catch.
DecodePayloadUncaught(encoded) == DecodeTry(encoded)

\* try { ... } catch (error) { return null; }
DecodePayload(encoded) == The({Catch(outcome) : outcome \in {DecodeTry(encoded)}})

(***************************************************************************)
(* One use of the codec: encodePayload of a payload and decodePayload of   *)
(* the token, or decodePayload of a string taken from a URL.               *)
(***************************************************************************)
\* The characters the payload fields are drawn from: A, the quote, the
\* backslash, the line feed, > and y-diaeresis (0xFF, the last code unit btoa
\* takes), L-stroke (0x141), and a high surrogate without its low one.
PayloadChars == {65, 34, 92, 10, 62, 255, 321, 55356}

StringsOver(chars, n) == UNION {[1..k -> chars] : k \in 0..n}

\* Every payload whose four fields hold at most MaxPayloadLen code units
\* together: a string of that length cut in four.
Payloads ==
    {[t |-> SubSeq(w[1], 1, w[2]), d |-> SubSeq(w[1], w[2] + 1, w[3]),
      g |-> SubSeq(w[1], w[3] + 1, w[4]), r |-> SubSeq(w[1], w[4] + 1, Len(w[1]))] :
        w \in {x \in StringsOver(PayloadChars, MaxPayloadLen) \X (0..MaxPayloadLen)
                      \X (0..MaxPayloadLen) \X (0..MaxPayloadLen) :
                  x[2] <= x[3] /\ x[3] <= x[4] /\ x[4] <= Len(x[1])}}

NoPayload == [t |-> <<>>, d |-> <<>>, g |-> <<>>, r |-> <<>>]

\* The characters a garbage token is drawn from: % 4 1 A = !
GarbageChars == {37, 52, 49, 65, 61, 33}

\* "not-a-token!!"
NotAToken == <<110, 111, 116, 45, 97, 45, 116, 111, 107, 101, 110, 33, 33>>

\* The token of a text: what encodePayload makes of the text in place of
\* JSON.stringify's result.
TokenOfText(text) == The({EncodeBase64(base64) : base64 \in {Btoa(Reverse(text))}}).value

\* JSON texts that are not objects: null, 5, [], "A", true, and no text.
LiteralTexts ==
    {<<110, 117, 108, 108>>, <<53>>, <<91, 93>>, <<34, 65, 34>>, <<116, 114, 117, 101>>, <<>>}

\* The text of an object in which each of t, d, g, r is absent, a string, a
\* number or null, as `kinds` says.
MemberKinds == {"absent", "string", "number", "null"}

MemberText(key, kind) ==
    IF kind = "absent" THEN <<>>
    ELSE <<<<34, key, 34, 58>>
           \o (IF kind = "string" THEN <<34, 65, 34>>
               ELSE IF kind = "number" THEN <<49>>
               ELSE <<110, 117, 108, 108>>)>>

RECURSIVE JoinWithCommas(_)
JoinWithCommas(texts) ==
    IF Len(texts) = 0 THEN <<>>
    ELSE IF Len(texts) = 1 THEN texts[1]
    ELSE texts[1] \o <<44>> \o JoinWithCommas(Tail(texts))

ObjectText(kinds) ==
    <<123>>
    \o JoinWithCommas(MemberText(116, kinds.t) \o MemberText(100, kinds.d)
                      \o MemberText(103, kinds.g) \o MemberText(114, kinds.r))
    \o <<125>>

AllStrings == [t |-> "string", d |-> "string", g |-> "string", r |-> "string"]

NoKinds == [t |-> "absent", d |-> "absent", g |-> "absent", r |-> "absent"]

Source(class, kinds) == [class |-> class, kinds |-> kinds]

\* The inputs of decodePayload drawn directly: garbage, the tokens of texts
\* that are not objects, the tokens of objects, and the token of a valid
\* object cut short.
DecodeInputs ==
    {[source |-> Source("garbage", NoKinds), token |-> x] :
        x \in StringsOver(GarbageChars, MaxGarbageLen) \cup {NotAToken}}
    \cup {[source |-> Source("literal", NoKinds), token |-> TokenOfText(x)] : x \in LiteralTexts}
    \cup {[source |-> Source("object", k), token |-> TokenOfText(ObjectText(k))] :
            k \in [{"t", "d", "g", "r"} -> MemberKinds]}
    \cup {[source |-> Source("truncated", NoKinds),
           token |-> SubSeq(TokenOfText(ObjectText(AllStrings)), 1, n)] :
            n \in 0..(Len(TokenOfText(ObjectText(AllStrings))) - 1)}

\* error: null, or a message (with the name a template put in it).
NoError == [isSet |-> FALSE, message |-> "", name |-> <<>>]
Error(message) == [isSet |-> TRUE, message |-> message, name |-> <<>>]

\* What there is to say of a handler that was not handleGenerate.
NoRun == [ran |-> FALSE, called |-> FALSE, threw |-> FALSE, allocation |-> NullResult]

\* The form as it is mounted: the useState initial values.
FormIdle ==
    /\ title = <<>>
    /\ description = <<>>
    /\ formParticipants = <<>>
    /\ newParticipantName = <<>>
    /\ generatedUrls = <<>>
    /\ error = NoError
    /\ now = 0
    /\ run = NoRun

CodecIdle ==
    /\ source = Source("none", NoKinds)
    /\ payload = NoPayload
    /\ token = <<>>
    /\ decoded = NullPayload
    /\ cpc = "idle"

AllocIdle ==
    /\ participants = <<>>
    /\ exclusions = EmptyMap
    /\ pc = "idle"
    /\ attempts = 0
    /\ allocation = EmptyMap
    /\ used = {}
    /\ stack = <<>>
    /\ retval = FALSE
    /\ returned = <<>>
    /\ result = NullResult
    /\ via = "none"

CodecInit ==
    /\ AllocIdle
    /\ FormIdle
    /\ decoded = NullPayload
    /\ \/ /\ source = Source("payload", NoKinds)
          /\ payload \in Payloads
          /\ token = <<>>
          /\ cpc = "encode"
       \/ /\ payload = NoPayload
          /\ \E in \in DecodeInputs :
                /\ source = in.source
                /\ token = in.token
          /\ cpc = "decode"

\* encodePayload(payload) returns the token.
Encode ==
    /\ cpc = "encode"
    /\ EncodePayload(payload).ok
    /\ token' = EncodePayload(payload).value
    /\ cpc' = "decode"
    /\ UNCHANGED <<source, payload, decoded>>
    /\ UNCHANGED <<allocVars, formVars>>

\* encodePayload(payload) throws.
EncodeThrows ==
    /\ cpc = "encode"
    /\ ~EncodePayload(payload).ok
    /\ cpc' = "threw"
    /\ UNCHANGED <<source, payload, token, decoded>>
    /\ UNCHANGED <<allocVars, formVars>>

\* decodePayload(token).
Decode ==
    /\ cpc = "decode"
    /\ decoded' = DecodePayload(token)
    /\ cpc' = "decoded"
    /\ UNCHANGED <<source, payload, token>>
    /\ UNCHANGED <<allocVars, formVars>>

CodecNext ==
    \/ Encode
    \/ EncodeThrows
    \/ Decode

SpecCodec == CodecInit /\ [][CodecNext]_vars

(***************************************************************************)
(* The inputs of a call.                                                   *)
(***************************************************************************)
NameAt(i) == <<64 + i>>      \* "A", "B", "C", ...

ParticipantLists == {[i \in 1..n |-> NameAt(i)] : n \in 1..MaxN}

\* The (giver, excluded name) pairs a mapping is drawn from: every pair of
\* two different participants, and the first participant naming itself.
ExclusionPairs(parts) ==
    {p \in Range(parts) \X Range(parts) : p[1] # p[2] \/ p[1] = parts[1]}

\* The exclusion mapping holding exactly the pairs P: a key for every giver
\* with at least one excluded name, no key for the others.
ExclusionMap(P) ==
    [g \in {p[1] : p \in P} |-> {p[2] : p \in {q \in P : q[1] = g}}]

ExclusionMaps(parts) ==
    {ExclusionMap(P) : P \in {Q \in SUBSET ExclusionPairs(parts) : Cardinality(Q) <= MaxExcl}}

(***************************************************************************)
(* One call of allocateSecretSanta, statement by statement.                *)
(***************************************************************************)
AllocInit ==
    /\ participants \in ParticipantLists
    /\ exclusions \in ExclusionMaps(participants)
    /\ pc = "start"
    /\ attempts = 0
    /\ allocation = EmptyMap
    /\ used = {}
    /\ stack = <<>>
    /\ retval = FALSE
    /\ returned = <<>>
    /\ result = NullResult
    /\ via = "none"
    /\ CodecIdle
    /\ FormIdle

\* A return statement: the result is handed to the caller and the locals of
\* the call (attempts, allocation, used, the calls of backtrack) are gone.
Return(value, how) ==
    /\ pc' = "done"
    /\ result' = value
    /\ via' = how
    /\ attempts' = 0
    /\ allocation' = EmptyMap
    /\ used' = {}
    /\ stack' = <<>>
    /\ retval' = FALSE
    /\ returned' = <<>>
    /\ UNCHANGED <<participants, exclusions>>
    /\ UNCHANGED <<codecVars, formVars>>

\* if (participants.length < 2) return null;
TooFew ==
    /\ pc = "start"
    /\ Len(participants) < 2
    /\ Return(NullResult, "tooFew")

EnterLoop ==
    /\ pc = "start"
    /\ Len(participants) >= 2
    /\ pc' = "trial"
    /\ UNCHANGED <<participants, exclusions, attempts, allocation, used, stack, retval,
                   returned, result, via>>
    /\ UNCHANGED <<codecVars, formVars>>

\* One iteration of the while loop whose candidate passes: return allocation.
TrialAccept ==
    /\ pc = "trial"
    /\ attempts < maxAttempts
    /\ \E shuffled \in Shuffles(participants) :
          /\ TrialValid(participants, exclusions, shuffled)
          /\ Return(Allocated(TrialAllocation(participants, shuffled)), "trial")

\* TrialReject with the attempts++ left out.
TrialRejectUncounted ==
    /\ pc = "trial"
    /\ attempts < maxAttempts
    /\ \E shuffled \in Shuffles(participants) :
          ~TrialValid(participants, exclusions, shuffled)
    /\ UNCHANGED vars

\* One iteration of the while loop whose candidate is rejected: attempts++.
TrialReject ==
    /\ pc = "trial"
    /\ attempts < maxAttempts
    /\ \E shuffled \in Shuffles(participants) :
          ~TrialValid(participants, exclusions, shuffled)
    /\ attempts' = attempts + 1
    /\ UNCHANGED <<participants, exclusions, pc, allocation, used, stack, retval,
                   returned, result, via>>
    /\ UNCHANGED <<codecVars, formVars>>

\* The loop condition fails: return allocateSystematic(participants, exclusions),
\* which starts with backtrack(0).
Fallback ==
    /\ pc = "trial"
    /\ ~(attempts < maxAttempts)
    /\ pc' = "enter"
    /\ allocation' = EmptyMap
    /\ used' = {}
    /\ stack' = <<>>
    /\ UNCHANGED <<participants, exclusions, attempts, retval, returned, result, via>>
    /\ UNCHANGED <<codecVars, formVars>>

\* backtrack(index) is entered with index = Len(stack) (0-based).
Index == Len(stack)

\* if (index >= participants.length) return true;
BtComplete ==
    /\ pc = "enter"
    /\ Index >= Len(participants)
    /\ retval' = TRUE
    /\ returned' = <<>>
    /\ pc' = "return"
    /\ UNCHANGED <<participants, exclusions, attempts, allocation, used, stack, result, via>>
    /\ UNCHANGED <<codecVars, formVars>>

\* giver, excluded, candidates: the filtered list in any shuffled order.
BtCandidates ==
    /\ pc = "enter"
    /\ Index < Len(participants)
    /\ LET giver == participants[Index + 1]
       IN \E cands \in Shuffles(Candidates(participants, exclusions, used, giver)) :
             stack' = Append(stack, [index |-> Index, giver |-> giver, candidates |-> cands,
                                     receiver |-> <<>>,
                                     entryAllocation |-> allocation, entryUsed |-> used])
    /\ pc' = "loop"
    /\ UNCHANGED <<participants, exclusions, attempts, allocation, used, retval, returned,
                   result, via>>
    /\ UNCHANGED <<codecVars, formVars>>

Top == stack[Len(stack)]

\* BtTry giving up on the candidates after the one it tries.
BtTryFirstOnly ==
    /\ pc = "loop"
    /\ Top.candidates # <<>>
    /\ LET receiver == Head(Top.candidates)
       IN /\ allocation' = MapSet(allocation, Top.giver, receiver)
          /\ used' = used \cup {receiver}
          /\ stack' = [stack EXCEPT ![Len(stack)].candidates = <<>>,
                                    ![Len(stack)].receiver = receiver]
    /\ pc' = "enter"
    /\ UNCHANGED <<participants, exclusions, attempts, retval, returned, result, via>>
    /\ UNCHANGED <<codecVars, formVars>>

\* for (const receiver of candidates): assign, mark used, call backtrack(index + 1).
BtTry ==
    /\ pc = "loop"
    /\ Top.candidates # <<>>
    /\ LET receiver == Head(Top.candidates)
       IN /\ allocation' = MapSet(allocation, Top.giver, receiver)
          /\ used' = used \cup {receiver}
          /\ stack' = [stack EXCEPT ![Len(stack)].candidates = Tail(@),
                                    ![Len(stack)].receiver = receiver]
    /\ pc' = "enter"
    /\ UNCHANGED <<participants, exclusions, attempts, retval, returned, result, via>>
    /\ UNCHANGED <<codecVars, formVars>>

\* The for loop is over: return false.
BtExhausted ==
    /\ pc = "loop"
    /\ Top.candidates = <<>>
    /\ retval' = FALSE
    /\ returned' = <<Top>>
    /\ stack' = SubSeq(stack, 1, Len(stack) - 1)
    /\ pc' = "return"
    /\ UNCHANGED <<participants, exclusions, attempts, allocation, used, result, via>>
    /\ UNCHANGED <<codecVars, formVars>>

\* if (backtrack(index + 1)) return true;
BtPropagate ==
    /\ pc = "return"
    /\ stack # <<>>
    /\ retval
    /\ returned' = <<Top>>
    /\ stack' = SubSeq(stack, 1, Len(stack) - 1)
    /\ UNCHANGED <<participants, exclusions, pc, attempts, allocation, used, retval,
                   result, via>>
    /\ UNCHANGED <<codecVars, formVars>>

\* BtUndo with the used.delete(receiver) left out.
BtUndoKeepingUsed ==
    /\ pc = "return"
    /\ stack # <<>>
    /\ ~retval
    /\ allocation' = MapDelete(allocation, Top.giver)
    /\ pc' = "loop"
    /\ UNCHANGED <<participants, exclusions, attempts, used, stack, retval, returned,
                   result, via>>
    /\ UNCHANGED <<codecVars, formVars>>

\* The call returned false: used.delete(receiver); delete allocation[giver].
BtUndo ==
    /\ pc = "return"
    /\ stack # <<>>
    /\ ~retval
    /\ used' = used \ {Top.receiver}
    /\ allocation' = MapDelete(allocation, Top.giver)
    /\ pc' = "loop"
    /\ UNCHANGED <<participants, exclusions, attempts, stack, retval, returned, result, via>>
    /\ UNCHANGED <<codecVars, formVars>>

\* return backtrack(0) ? allocation : null;
BtFinish ==
    /\ pc = "return"
    /\ stack = <<>>
    /\ Return(IF retval THEN Allocated(allocation) ELSE NullResult, "systematic")

AllocNext ==
    \/ TooFew
    \/ EnterLoop
    \/ TrialAccept
    \/ TrialReject
    \/ Fallback
    \/ BtComplete
    \/ BtCandidates
    \/ BtTry
    \/ BtExhausted
    \/ BtPropagate
    \/ BtUndo
    \/ BtFinish

SpecAlloc == AllocInit /\ [][AllocNext]_vars

\* The call runs to its end: no statement of it waits for anything.
FairSpecAlloc == SpecAlloc /\ WF_vars(AllocNext)

(***************************************************************************)
(* The call as a whole, for the handler that calls it: every value         *)
(* allocateSecretSanta(parts, excl) can return.                            *)
(***************************************************************************)
\* backtrack(index) with `allocation` and `used` as they stand: every outcome
\* it can have, an outcome being whether it returns true and `allocation` as
\* it leaves it.  The candidates are shuffled, so there is an outcome for each
\* order of them; TryCandidates is the for loop from the k-th candidate on.
RECURSIVE Backtrack(_, _, _, _, _)
RECURSIVE TryCandidates(_, _, _, _, _, _, _)
Backtrack(parts, excl, index, allocationNow, usedNow) ==
    IF index >= Len(parts) THEN {[ok |-> TRUE, allocation |-> allocationNow]}
    ELSE UNION {TryCandidates(parts, excl, index, allocationNow, usedNow, candidates, 1) :
                    candidates \in Shuffles(Candidates(parts, excl, usedNow, parts[index + 1]))}

\* What the loop does with the outcomes of backtrack(index + 1): one that is
\* true is returned, one that is false (used and allocation are put back) is
\* followed by the next candidate.
AfterCall(inner, parts, excl, index, allocationNow, usedNow, candidates, k) ==
    {o \in inner : o.ok}
    \cup (IF \E o \in inner : ~o.ok
          THEN TryCandidates(parts, excl, index, allocationNow, usedNow, candidates, k + 1)
          ELSE {})

TryCandidates(parts, excl, index, allocationNow, usedNow, candidates, k) ==
    IF k > Len(candidates) THEN {[ok |-> FALSE, allocation |-> allocationNow]}
    ELSE UNION {AfterCall(inner, parts, excl, index, allocationNow, usedNow, candidates, k) :
                  inner \in {Backtrack(parts, excl, index + 1,
                                       MapSet(allocationNow, parts[index + 1], candidates[k]),
                                       usedNow \cup {candidates[k]})}}

\* return backtrack(0) ? allocation : null
AllocateSystematic(parts, excl) ==
    {IF o.ok THEN Allocated(o.allocation) ELSE NullResult :
        o \in Backtrack(parts, excl, 0, EmptyMap, {})}

\* null for fewer than two participants; otherwise the allocation of any
\* valid shuffle (a trial that was accepted), or, when 1000 trials were
\* rejected, what allocateSystematic returns.
AllocateSecretSanta(parts, excl) ==
    IF Len(parts) < 2 THEN {NullResult}
    ELSE {Allocated(TrialAllocation(parts, shuffled)) :
              shuffled \in {x \in Shuffles(parts) : TrialValid(parts, excl, x)}}
         \cup AllocateSystematic(parts, excl)

\* The steps of the call return what the call as a whole is said to return.
StepsAgreeWithCall == pc = "done" => result \in AllocateSecretSanta(participants, exclusions)

(***************************************************************************)
(* The entry form (EntryPage.tsx): its state and its handlers.  A handler  *)
(* runs to its end in one step; the state updates it queued are applied    *)
(* when it ends, also when it ends by an exception.                        *)
(***************************************************************************)
\* String.prototype.trim: white space and line terminators.
IsWhiteSpace(c) ==
    c \in {9, 10, 11, 12, 13, 32, 160, 5760, 8232, 8233, 8239, 8287, 12288, 65279}
          \cup (8192..8202)

Trim(s) ==
    LET kept == {i \in 1..Len(s) : ~IsWhiteSpace(s[i])}
    IN IF kept = {} THEN <<>>
       ELSE SubSeq(s, CHOOSE i \in kept : \A j \in kept : i <= j,
                      CHOOSE i \in kept : \A j \in kept : j <= i)

\* toUpperCase and toLowerCase on the letters of the model: a-z and
\* l-stroke (U+0142, upper case U+0141).
ToUpperCase(s) ==
    [i \in 1..Len(s) |-> IF s[i] \in 97..122 THEN s[i] - 32
                         ELSE IF s[i] = 322 THEN 321 ELSE s[i]]

ToLowerCase(s) ==
    [i \in 1..Len(s) |-> IF s[i] \in 65..90 THEN s[i] + 32
                         ELSE IF s[i] = 321 THEN 322 ELSE s[i]]

\* Number.prototype.toString of a non-negative integer: its decimal digits.
RECURSIVE NumberToString(_)
NumberToString(n) ==
    IF n < 10 THEN <<48 + n>> ELSE NumberToString(n \div 10) \o <<48 + (n % 10)>>

\* The first index of a non-empty set of indices, as Array.prototype.find and
\* a for...of loop come to it.
First(indices) == CHOOSE i \in indices : \A j \in indices : i <= j

\* What can be typed into the title, the description and the name field:
\* "", "t ", l-stroke;  "", " d";  "a", " b", "c".
TitleInputs == {<<>>, <<116, 32>>, <<322>>}
DescriptionInputs == {<<>>, <<32, 100>>}
NameInputs == {<<97>>, <<32, 98>>, <<99>>}

\* onChange of the three fields: the value typed, in upper case.
SetTitle ==
    /\ \E value \in TitleInputs : title' = ToUpperCase(value)
    /\ run' = NoRun
    /\ UNCHANGED <<description, formParticipants, newParticipantName, generatedUrls, error, now>>
    /\ UNCHANGED <<allocVars, codecVars>>

SetDescription ==
    /\ \E value \in DescriptionInputs : description' = ToUpperCase(value)
    /\ run' = NoRun
    /\ UNCHANGED <<title, formParticipants, newParticipantName, generatedUrls, error, now>>
    /\ UNCHANGED <<allocVars, codecVars>>

SetNewParticipantName ==
    /\ \E value \in NameInputs : newParticipantName' = ToUpperCase(value)
    /\ run' = NoRun
    /\ UNCHANGED <<title, description, formParticipants, generatedUrls, error, now>>
    /\ UNCHANGED <<allocVars, codecVars>>

\* A millisecond passes.
Tick ==
    /\ now < MaxClock
    /\ now' = now + 1
    /\ UNCHANGED <<title, description, formParticipants, newParticipantName, generatedUrls,
                   error, run>>
    /\ UNCHANGED <<allocVars, codecVars>>

\* participants.some(p => p.name.toLowerCase() === trimmed.toLowerCase())
IsDuplicate(list, trimmed) ==
    \E i \in 1..Len(list) : ToLowerCase(list[i].name) = ToLowerCase(trimmed)

\* addParticipant: nothing for a blank name, an error for a name the list
\* has, otherwise a new participant whose id is the clock's text.
AddParticipant ==
    /\ \E trimmed \in {Trim(newParticipantName)} :
          IF trimmed = <<>>
          THEN UNCHANGED <<formParticipants, newParticipantName, error>>
          ELSE IF IsDuplicate(formParticipants, trimmed)
          THEN /\ error' = Error("Participant name must be unique")
               /\ UNCHANGED <<formParticipants, newParticipantName>>
          ELSE /\ Len(formParticipants) < MaxParticipants
               /\ formParticipants' =
                      Append(formParticipants,
                             [id |-> NumberToString(now), name |-> trimmed, exclusions |-> <<>>])
               /\ newParticipantName' = <<>>
               /\ error' = NoError
    /\ run' = NoRun
    /\ UNCHANGED <<title, description, generatedUrls, now>>
    /\ UNCHANGED <<allocVars, codecVars>>

\* The list removeParticipant(id) leaves: the participants of another id,
\* the name of the first participant of that id taken from their exclusions.
WithoutParticipant(list, id) ==
    LET hasId == {i \in 1..Len(list) : list[i].id = id}
        participantToRemove == list[First(hasId)]   \* undefined when hasId = {}
        hasOtherId(p) == p.id # id
        isOtherName(name) == ~(hasId # {} /\ participantToRemove.name = name)
        filtered == SelectSeq(list, hasOtherId)
    IN [i \in 1..Len(filtered) |->
           [filtered[i] EXCEPT !.exclusions = SelectSeq(@, isOtherName)]]

\* The remove button of a row: removeParticipant(participant.id).
RemoveParticipant ==
    /\ \E row \in 1..Len(formParticipants) :
          formParticipants' = WithoutParticipant(formParticipants, formParticipants[row].id)
    /\ run' = NoRun
    /\ UNCHANGED <<title, description, newParticipantName, generatedUrls, error, now>>
    /\ UNCHANGED <<allocVars, codecVars>>

\* The list toggleExclusion(participantId, excludedName) leaves.
WithToggled(list, participantId, excludedName) ==
    LET isOtherName(n) == n # excludedName
    IN [i \in 1..Len(list) |->
           IF list[i].id # participantId THEN list[i]
           ELSE IF excludedName \in Range(list[i].exclusions)
           THEN [list[i] EXCEPT !.exclusions = SelectSeq(@, isOtherName)]
           ELSE [list[i] EXCEPT !.exclusions = Append(@, excludedName)]]

\* A checkbox of a row: the rows show, when the list has more than one
\* participant, a checkbox for every participant of another id than the
\* row's, which calls toggleExclusion(participant.id, p.name).
ToggleExclusion ==
    /\ Len(formParticipants) > 1
    /\ \E row, box \in 1..Len(formParticipants) :
          /\ formParticipants[box].id # formParticipants[row].id
          /\ formParticipants' = WithToggled(formParticipants, formParticipants[row].id,
                                             formParticipants[box].name)
    /\ run' = NoRun
    /\ UNCHANGED <<title, description, newParticipantName, generatedUrls, error, now>>
    /\ UNCHANGED <<allocVars, codecVars>>

\* window.location.origin + window.location.pathname.replace(/\/$/, ''), for
\* a page served at http://h/
BaseUrl == <<104, 116, 116, 112, 58, 47, 47, 104>>

\* "/play?data="
PlayData == <<47, 112, 108, 97, 121, 63, 100, 97, 116, 97, 61>>

\* `${baseUrl}/play?data=${encoded}`
Url(encoded) == BaseUrl \o PlayData \o encoded

\* participants.map(p => p.name)
Names(list) == [i \in 1..Len(list) |-> list[i].name]

\* exclusionsMap[p.name] = p.exclusions for each participant in turn.
ExclusionsMap(list) ==
    [name \in Range(Names(list)) |->
        Range(list[CHOOSE i \in 1..Len(list) :
                      list[i].name = name /\ \A j \in 1..Len(list) : list[j].name = name => j <= i]
                  .exclusions)]

\* The participants whose exclusions hold their own name.
ExcludingItself(list) == {i \in 1..Len(list) : list[i].name \in Range(list[i].exclusions)}

\* encodePayload of the payload of each name, in the order of the names.
EncodedPayloads(names, t, d, receiverOf) ==
    [i \in 1..Len(names) |->
        EncodePayload([t |-> t, d |-> d, g |-> names[i], r |-> receiverOf[names[i]]])]

\* How handleGenerate ends: the updates it queued after setError(null) and
\* setGeneratedUrls([]), and what it did.
Ends(message, urls, called, threw, allocated) ==
    /\ error' = message
    /\ generatedUrls' = urls
    /\ run' = [ran |-> TRUE, called |-> called, threw |-> threw, allocation |-> allocated]

\* The part of handleGenerate from the call of allocateSecretSanta on.
Allocates(names, t, d) ==
    \E allocated \in AllocateSecretSanta(names, ExclusionsMap(formParticipants)) :
        IF allocated.isNull
        THEN Ends(Error("Could not generate a valid allocation. Try adjusting exclusions."),
                  <<>>, TRUE, FALSE, allocated)
        ELSE \E encoded \in {EncodedPayloads(names, t, d, allocated.map)} :
                IF \E i \in 1..Len(names) : ~encoded[i].ok
                THEN Ends(NoError, <<>>, TRUE, TRUE, allocated)
                ELSE Ends(NoError,
                          [i \in 1..Len(names) |->
                              [name |-> names[i], url |-> Url(encoded[i].value)]],
                          TRUE, FALSE, allocated)

\* handleGenerate.
HandleGenerate ==
    /\ \E t \in {Trim(title)}, d \in {Trim(description)}, names \in {Names(formParticipants)} :
          IF t = <<>>
          THEN Ends(Error("Event title is required"), <<>>, FALSE, FALSE, NullResult)
          ELSE IF Len(formParticipants) < 2
          THEN Ends(Error("At least 2 participants are required"), <<>>, FALSE, FALSE, NullResult)
          ELSE IF Cardinality({ToLowerCase(names[i]) : i \in 1..Len(names)}) # Len(names)
          THEN Ends(Error("All participant names must be unique"), <<>>, FALSE, FALSE, NullResult)
          ELSE IF ExcludingItself(formParticipants) # {}
          THEN Ends([isSet |-> TRUE, message |-> "cannot exclude themselves",
                     name |-> formParticipants[First(ExcludingItself(formParticipants))].name],
                    <<>>, FALSE, FALSE, NullResult)
          ELSE Allocates(names, t, d)
    /\ UNCHANGED <<title, description, formParticipants, newParticipantName, now>>
    /\ UNCHANGED <<allocVars, codecVars>>

FormInit ==
    /\ AllocIdle
    /\ CodecIdle
    /\ FormIdle

FormNext ==
    \/ SetTitle
    \/ SetDescription
    \/ SetNewParticipantName
    \/ Tick
    \/ AddParticipant
    \/ RemoveParticipant
    \/ ToggleExclusion
    \/ HandleGenerate

SpecForm == FormInit /\ [][FormNext]_vars

(***************************************************************************)
(* Properties of the allocation engine.                                    *)
(***************************************************************************)
\* f is a complete assignment for the list: every participant gives to
\* exactly one participant, every participant receives exactly once, nobody
\* gives to itself or to a name of its exclusion array.
IsValidAssignment(f, parts, excl) ==
    /\ DOMAIN f = Range(parts)
    /\ \A g \in DOMAIN f : f[g] \in Range(parts)
    /\ \A r \in Range(parts) : Cardinality({g \in DOMAIN f : f[g] = r}) = 1
    /\ \A g \in DOMAIN f : f[g] # g
    /\ \A g \in DOMAIN f : g \in DOMAIN excl => f[g] \notin excl[g]

Feasible(parts, excl) ==
    \E f \in [Range(parts) -> Range(parts)] : IsValidAssignment(f, parts, excl)

\* C1: whatever allocateSecretSanta returns that is not null, from the trial
\* phase or from the backtracking fallback, is a valid complete assignment:
\* every participant is a giver with one receiver, every participant is a
\* receiver exactly once, no giver receives itself or an excluded name.
C1_ResultIsValid ==
    (pc = "done" /\ ~result.isNull) =>
        IsValidAssignment(result.map, participants, exclusions)

\* A fallback run that returned an allocation under a non-empty exclusion mapping.
C1_Witness ==
    /\ pc = "done"
    /\ via = "systematic"
    /\ ~result.isNull
    /\ exclusions # EmptyMap
    /\ Len(participants) = 3

\* C2: for a list of at least 2 names that has no valid assignment, the call
\* returns null, after the fallback has exhausted its search.
C2_InfeasibleGivesNull ==
    (pc = "done" /\ Len(participants) >= 2 /\ ~Feasible(participants, exclusions)) =>
        (result.isNull /\ via = "systematic")

\* The spec's scenario: A and B excluding each other.
C2_Witness ==
    /\ pc = "done"
    /\ participants = <<NameAt(1), NameAt(2)>>
    /\ exclusions = ExclusionMap({<<NameAt(1), NameAt(2)>>, <<NameAt(2), NameAt(1)>>})
    /\ result.isNull

\* C3: for a list of at least 2 names that has a valid assignment, the call
\* returns an allocation, also when all the trials were rejected.
C3_FeasibleGivesAllocation ==
    (pc = "done" /\ Len(participants) >= 2 /\ Feasible(participants, exclusions)) =>
        ~result.isNull

\* Three names, no exclusions, every trial rejected: the fallback's answer.
C3_Witness ==
    /\ pc = "done"
    /\ via = "systematic"
    /\ Len(participants) = 3
    /\ exclusions = EmptyMap
    /\ ~result.isNull

\* C6: every call ends; the trial phase rejects at most maxAttempts
\* candidates and accepts one only before that; the fallback runs only after
\* maxAttempts rejections.
C6_Terminates ==
    /\ <>(pc = "done")
    /\ [](attempts <= maxAttempts)
    /\ [][pc' = "done" /\ via' = "trial" => attempts < maxAttempts]_vars
    /\ [](pc \in {"enter", "loop", "return"} => attempts = maxAttempts)

\* A call that ended in the fallback with failure, after maxAttempts trials.
C6_Witness ==
    /\ pc = "done"
    /\ via = "systematic"
    /\ result.isNull
    /\ Len(participants) = 3

\* C9: at every entry to backtrack(index) the partial allocation assigns
\* exactly the givers before index, to pairwise distinct receivers, and `used`
\* is the set of those receivers; a call that returns false leaves allocation
\* and `used` as they were when it was entered.
C9_BacktrackInvariant ==
    /\ pc = "enter" =>
          /\ DOMAIN allocation = {participants[i] : i \in 1..Index}
          /\ \A g, h \in DOMAIN allocation : allocation[g] = allocation[h] => g = h
          /\ used = {allocation[g] : g \in DOMAIN allocation}
    /\ (pc = "return" /\ ~retval) =>
          /\ allocation = returned[1].entryAllocation
          /\ used = returned[1].entryUsed

\* A nested call that tried a receiver, had it undone, and returned false.
C9_Witness ==
    /\ pc = "return"
    /\ ~retval
    /\ returned[1].index >= 1
    /\ returned[1].receiver # <<>>


(***************************************************************************)
(* The codec.                                                              *)
(***************************************************************************)
\* The record decodePayload hands back for the payload that was encoded.
RoundTripped == ReturnedPayload(payload.t, payload.d, payload.g, payload.r)

\* C4: for every payload whose four fields are strings, encodePayload
\* produces a token (it does not raise) and decodePayload of the token
\* returns a record equal to the payload in all four fields, never null.
C4_RoundTrip ==
    source.class = "payload" =>
        /\ cpc # "threw"
        /\ cpc = "decoded" => decoded = RoundTripped

\* The payloads btoa takes: every code unit of the JSON text is at most 0xFF
\* (a surrogate without its pair is written as an escape, so it is taken).
BtoaTakes(p) == \A c \in Range(JSONStringify(p)) : c <= 255

\* The payloads btoa takes make the round trip, and the others raise.
RoundTripWhereBtoaTakes ==
    source.class = "payload" =>
        /\ cpc # "encode" => (cpc = "threw" <=> ~BtoaTakes(payload))
        /\ cpc = "decoded" => decoded = RoundTripped

\* C5: decodePayload raises for no input string; it returns null when
\* percent-decoding, Base64 decoding or JSON parsing fails and when the parsed
\* value is not an object whose t, d, g and r are all strings; it returns a
\* record only when all four are present and are strings.
C5_DecodeNeverRaises ==
    cpc = "decoded" =>
        /\ ~decoded.threw
        /\ source.class \in {"garbage", "literal", "truncated"} => decoded.isNull
        /\ source.class = "object" =>
              IF source.kinds = AllStrings
              THEN decoded = ReturnedPayload(<<65>>, <<65>>, <<65>>, <<65>>)
              ELSE decoded.isNull

\* C5 happened: a failure of each step and a parsed value of the wrong shape
\* ended in null.  (One predicate per case; the witness is the last.)
C5_WitnessGarbage == cpc = "decoded" /\ token = NotAToken /\ decoded = NullPayload

C5_WitnessLiteral ==
    cpc = "decoded" /\ token = TokenOfText(<<110, 117, 108, 108>>) /\ decoded = NullPayload

C5_Witness ==
    /\ cpc = "decoded"
    /\ source.class = "object"
    /\ source.kinds = [t |-> "string", d |-> "string", g |-> "number", r |-> "absent"]
    /\ decoded = NullPayload

\* A code unit of RFC 3986's unreserved set: a letter, a digit, - . _ ~
IsUnreserved(c) == c \in (65..90) \cup (97..122) \cup (48..57) \cup {45, 46, 95, 126}

IsHexDigit(c) == c \in (48..57) \cup (65..70)

\* s is made of unreserved characters and whole percent-escapes.
IsQuerySafe(s) ==
    \A i \in 1..Len(s) :
        \/ IsUnreserved(s[i])
        \/ /\ s[i] = 37
           /\ i + 2 <= Len(s)
           /\ IsHexDigit(s[i + 1])
           /\ IsHexDigit(s[i + 2])

\* C7: every token encodePayload returns consists of unreserved characters
\* and percent-escapes only: + / = are never unescaped in it, and it holds
\* no & # ? or space.
C7_TokenIsQuerySafe ==
    (source.class = "payload" /\ cpc \in {"decode", "decoded"}) =>
        /\ IsQuerySafe(token)
        /\ \A i \in 1..Len(token) : token[i] \notin {43, 47, 61, 38, 35, 63, 32}

\* s holds the escape %XY at some place.
HasEscape(s, x, y) ==
    \E i \in 1..(Len(s) - 2) : s[i] = 37 /\ s[i + 1] = x /\ s[i + 2] = y

\* C7 happened: a token was returned whose Base64 text held + and /.
C7_Witness ==
    /\ source.class = "payload"
    /\ cpc = "decode"
    /\ HasEscape(token, 50, 66)
    /\ HasEscape(token, 50, 70)

C7_WitnessPadding == source.class = "payload" /\ cpc = "decode" /\ HasEscape(token, 51, 68)


(***************************************************************************)
(* The entry form.                                                         *)
(***************************************************************************)
\* What handleGenerate refuses before it allocates: a blank title, fewer
\* than two participants, two names equal ignoring case, a participant that
\* excludes itself.
IsRefused ==
    \/ Trim(title) = <<>>
    \/ Len(formParticipants) < 2
    \/ \E i, j \in 1..Len(formParticipants) :
          i # j /\ ToLowerCase(formParticipants[i].name) = ToLowerCase(formParticipants[j].name)
    \/ \E i \in 1..Len(formParticipants) :
          formParticipants[i].name \in Range(formParticipants[i].exclusions)

IsInfeasible == ~Feasible(Names(formParticipants), ExclusionsMap(formParticipants))

\* The payload of a link: what decodePayload makes of its data parameter.
PayloadOf(url) == DecodePayload(SubSeq(url, Len(BaseUrl) + Len(PlayData) + 1, Len(url)))

\* Outcome (a): an error is set and there are no links.
IsOutcomeA == error.isSet /\ generatedUrls = <<>>

\* Outcome (b): no error is set and there is one link per participant, in
\* the order of the participants, whose payload names the participant as g
\* and its receiver in the allocation as r; the receivers are the
\* participants, each once, nobody its own.
IsOutcomeB ==
    /\ ~error.isSet
    /\ Len(generatedUrls) = Len(formParticipants)
    /\ ~run.allocation.isNull
    /\ \A i \in 1..Len(generatedUrls) :
          /\ generatedUrls[i].name = formParticipants[i].name
          /\ ~PayloadOf(generatedUrls[i].url).isNull
          /\ PayloadOf(generatedUrls[i].url).g = formParticipants[i].name
          /\ formParticipants[i].name \in DOMAIN run.allocation.map
          /\ PayloadOf(generatedUrls[i].url).r = run.allocation.map[formParticipants[i].name]
          /\ PayloadOf(generatedUrls[i].url).r # formParticipants[i].name
    /\ \A j \in 1..Len(formParticipants) :
          Cardinality({i \in 1..Len(generatedUrls) :
                          PayloadOf(generatedUrls[i].url).r = formParticipants[j].name}) = 1

\* C8: after a run of handleGenerate exactly one of (a) and (b) holds; (a)
\* holds when the input is refused or the allocation is infeasible, and for
\* a refused input allocateSecretSanta is not called.
C8_GenerateOutcome ==
    run.ran =>
        /\ IsOutcomeA # IsOutcomeB
        /\ IsOutcomeA <=> (IsRefused \/ IsInfeasible)
        /\ IsRefused => ~run.called

\* The same for the runs in which encodePayload does not raise.
GenerateOutcomeUnlessThrown == (run.ran /\ ~run.threw) => C8_GenerateOutcome

\* C10: after any addParticipant, removeParticipant and toggleExclusion the
\* names are pairwise distinct ignoring case, and every name in a
\* participant's exclusion list is the name of a listed participant other
\* than that participant.
C10_ExclusionsAreListed ==
    /\ \A i, j \in 1..Len(formParticipants) :
          i # j => ToLowerCase(formParticipants[i].name) # ToLowerCase(formParticipants[j].name)
    /\ \A i \in 1..Len(formParticipants) :
          \A excluded \in Range(formParticipants[i].exclusions) :
              /\ excluded # formParticipants[i].name
              /\ \E j \in 1..Len(formParticipants) : formParticipants[j].name = excluded

\* The ids of the list are pairwise distinct.
IdsAreDistinct ==
    \A i, j \in 1..Len(formParticipants) :
        i # j => formParticipants[i].id # formParticipants[j].id

\* The same as long as no two participants were added in one millisecond.
ExclusionsAreListedUnlessIdsCollide ==
    [][IdsAreDistinct /\ C10_ExclusionsAreListed /\ IdsAreDistinct' => C10_ExclusionsAreListed']_vars

====
